---- MODULE Spec2Model ----
(***************************************************************************)
(* Model of the mtjp9-rs-auth0-client crate: the validated value types     *)
(* (BearerToken, Domain), the error taxonomy (Auth0Error) and the response *)
(* dispatch of the seven endpoint functions.                               *)
(*                                                                         *)
(* Strings whose characters the code inspects (tokens, domains, URLs) are  *)
(* sequences of Unicode code points.  Strings the code only passes around  *)
(* (messages, JSON field values) are TLA+ strings.                         *)
(***************************************************************************)
EXTENDS Integers, Sequences, FiniteSets, TLC

VARIABLES build, token, shown, domain, url, builder, request, wire, call,
          response, result, sent, invocations

vars ==
  <<build, token, shown, domain, url, builder, request, wire, call, response,
    result, sent, invocations>>

(***************************************************************************)
(* Bounds of the explored inputs.                                          *)
(***************************************************************************)
MaxTokenLen == 3

MaxDomainLen == 3

MaxInvocations == 2

(***************************************************************************)
(* Texts and JSON documents.  A response body is represented by what a     *)
(* JSON reader makes of its text: Raw(s) is the text s, which is not a     *)
(* JSON document; Obj(f) is the text of a JSON object with members f;      *)
(* Arr(q) is the text of a JSON array with elements q.  Messages built by  *)
(* the code are texts Raw(s).                                              *)
(***************************************************************************)
Raw(s) == [form |-> "raw", text |-> s, members |-> <<>>, elems |-> <<>>]

Obj(f) == [form |-> "object", text |-> "", members |-> f, elems |-> <<>>]

Arr(q) == [form |-> "array", text |-> "", members |-> <<>>, elems |-> q]

\* JSON values that occur as members or elements.
JStr(s) == [t |-> "string", s |-> s, n |-> 0]

JNum(n) == [t |-> "number", s |-> "", n |-> n]

JBool == [t |-> "bool", s |-> "", n |-> 0]

JNull == [t |-> "null", s |-> "", n |-> 0]

JEmptyArr == [t |-> "array", s |-> "", n |-> 0]

JEmptyObj == [t |-> "object", s |-> "", n |-> 0]

(***************************************************************************)
(* Auth0Error and Result.                                                  *)
(***************************************************************************)
Transport(cause) == [kind |-> "Transport", source |-> cause]

InvalidRequest(m) == [kind |-> "InvalidRequest", msg |-> m]

Unauthorized(m) == [kind |-> "Unauthorized", msg |-> m]

Forbidden(m) == [kind |-> "Forbidden", msg |-> m]

Conflict(s, b) == [kind |-> "Conflict", status |-> s, body |-> b]

TooManyRequests(m) == [kind |-> "TooManyRequests", msg |-> m]

UnexpectedResponse(s, b) == [kind |-> "UnexpectedResponse", status |-> s, body |-> b]

Ok(v) == [kind |-> "Ok", value |-> v]

ErrorKinds ==
  {"Transport", "InvalidRequest", "Unauthorized", "Forbidden", "Conflict",
   "TooManyRequests", "UnexpectedResponse"}

IsErr(r) == r.kind \in ErrorKinds

None == [kind |-> "None"]

(***************************************************************************)
(* String helpers over code-point sequences.                               *)
(***************************************************************************)
StartsWith(s, p) == Len(s) >= Len(p) /\ SubSeq(s, 1, Len(p)) = p

EndsWithChar(s, c) == Len(s) > 0 /\ s[Len(s)] = c

ContainsChar(s, c) == \E i \in 1..Len(s) : s[i] = c

Contains(s, p) ==
  \E i \in 0..(Len(s) - Len(p)) : SubSeq(s, i + 1, i + Len(p)) = p

\* char::is_whitespace: the code points with the Unicode White_Space property.
IsWhitespace(c) ==
  \/ c \in 9..13
  \/ c \in {32, 133, 160, 5760, 8232, 8233, 8239, 8287, 12288}
  \/ c \in 8192..8202

SeqsUpTo(S, n) == UNION {[1..k -> S] : k \in 0..n}

(***************************************************************************)
(* BearerToken (token.rs).                                                 *)
(***************************************************************************)
BearerTokenNew_AsciiSpaceOnly(raw) ==
  IF Len(raw) = 0
    THEN InvalidRequest(Raw("Bearer token cannot be empty"))
    ELSE IF \E i \in 1..Len(raw) : raw[i] = 32
      THEN InvalidRequest(Raw("Bearer token cannot contain whitespace"))
      ELSE Ok([inner |-> raw])

BearerTokenNew(raw) ==
  IF Len(raw) = 0
    THEN InvalidRequest(Raw("Bearer token cannot be empty"))
    ELSE IF \E i \in 1..Len(raw) : IsWhitespace(raw[i])
      THEN InvalidRequest(Raw("Bearer token cannot contain whitespace"))
      ELSE Ok([inner |-> raw])

TokenAsStr(t) == t.inner

\* "[REDACTED]"
REDACTED == <<91, 82, 69, 68, 65, 67, 84, 69, 68, 93>>

\* The derived Debug of the field value &"[REDACTED]": the text in quotes.
DebugStr(s) == <<34>> \o s \o <<34>>

\* "BearerToken { inner: " and " }"
TokenDebug_Leak(t) ==
  <<66, 101, 97, 114, 101, 114, 84, 111, 107, 101, 110, 32, 123, 32,
    105, 110, 110, 101, 114, 58, 32>> \o DebugStr(t.inner) \o <<32, 125>>

TokenDebug(t) ==
  <<66, 101, 97, 114, 101, 114, 84, 111, 107, 101, 110, 32, 123, 32,
    105, 110, 110, 101, 114, 58, 32>> \o DebugStr(REDACTED) \o <<32, 125>>

\* The pretty form {:#?}: "BearerToken {\n    inner: ", ",\n}"
TokenDebugPretty(t) ==
  <<66, 101, 97, 114, 101, 114, 84, 111, 107, 101, 110, 32, 123, 10,
    32, 32, 32, 32, 105, 110, 110, 101, 114, 58, 32>>
    \o DebugStr(REDACTED) \o <<44, 10, 125>>

TokenDisplay(t) == REDACTED

(***************************************************************************)
(* Domain (domain.rs).  b is the build: "production" is cfg(not(test)),    *)
(* "test" is cfg(test).                                                    *)
(***************************************************************************)
\* "http://"
HTTP == <<104, 116, 116, 112, 58, 47, 47>>

\* "https://"
HTTPS == <<104, 116, 116, 112, 115, 58, 47, 47>>

DomainNew_SlashFirst(b, raw) ==
  IF Len(raw) = 0
    THEN InvalidRequest(Raw("Domain cannot be empty"))
  ELSE IF EndsWithChar(raw, 47)
    THEN InvalidRequest(Raw("Domain should not end with a trailing slash"))
  ELSE IF b = "production" /\ (StartsWith(raw, HTTP) \/ StartsWith(raw, HTTPS))
    THEN InvalidRequest(Raw("Domain should not include protocol (http:// or https://)"))
  ELSE IF b = "test" /\ StartsWith(raw, HTTPS)
    THEN InvalidRequest(Raw("Domain should not include protocol (https://)"))
  ELSE IF b = "production" /\ ~ContainsChar(raw, 46)
    THEN InvalidRequest(Raw("Domain must be a valid Auth0 domain (e.g., tenant.auth0.com)"))
  ELSE Ok([inner |-> raw])

DomainNew_TestAllowsHttps(b, raw) ==
  IF Len(raw) = 0
    THEN InvalidRequest(Raw("Domain cannot be empty"))
  ELSE IF b = "production" /\ (StartsWith(raw, HTTP) \/ StartsWith(raw, HTTPS))
    THEN InvalidRequest(Raw("Domain should not include protocol (http:// or https://)"))
  ELSE IF EndsWithChar(raw, 47)
    THEN InvalidRequest(Raw("Domain should not end with a trailing slash"))
  ELSE IF b = "production" /\ ~ContainsChar(raw, 46)
    THEN InvalidRequest(Raw("Domain must be a valid Auth0 domain (e.g., tenant.auth0.com)"))
  ELSE Ok([inner |-> raw])

DomainNew(b, raw) ==
  IF Len(raw) = 0
    THEN InvalidRequest(Raw("Domain cannot be empty"))
  ELSE IF b = "production" /\ (StartsWith(raw, HTTP) \/ StartsWith(raw, HTTPS))
    THEN InvalidRequest(Raw("Domain should not include protocol (http:// or https://)"))
  ELSE IF b = "test" /\ StartsWith(raw, HTTPS)
    THEN InvalidRequest(Raw("Domain should not include protocol (https://)"))
  ELSE IF EndsWithChar(raw, 47)
    THEN InvalidRequest(Raw("Domain should not end with a trailing slash"))
  ELSE IF b = "production" /\ ~ContainsChar(raw, 46)
    THEN InvalidRequest(Raw("Domain must be a valid Auth0 domain (e.g., tenant.auth0.com)"))
  ELSE Ok([inner |-> raw])

DomainAsStr(d) == d.inner

DomainToUrl_AlwaysHttps(d, path) == HTTPS \o d.inner \o path

DomainToUrl(d, path) ==
  IF StartsWith(d.inner, HTTP)
    THEN d.inner \o path
    ELSE HTTPS \o d.inner \o path

(***************************************************************************)
(* Decoding a JSON document into a struct (serde derive, serde_json).  A   *)
(* schema is the struct's fields in declaration order, each with its type. *)
(* Unknown members of an object are ignored; an absent member is accepted  *)
(* for an Option field only.  A struct also decodes from an array that     *)
(* gives every field in declaration order, no element more or less.        *)
(***************************************************************************)
Field(name, type) == [name |-> name, type |-> type]

OptionalTypes ==
  {"Option<String>", "Option<bool>", "Option<Value>", "Option<struct>",
   "Option<Vec>"}

TypeOk(type, v) ==
  CASE type = "String" -> v.t = "string"
    [] type = "u64" -> v.t = "number" /\ v.n >= 0
    [] type = "bool" -> v.t = "bool"
    [] type = "Vec" -> v.t = "array"
    [] type = "Option<String>" -> v.t \in {"null", "string"}
    [] type = "Option<bool>" -> v.t \in {"null", "bool"}
    [] type = "Option<Value>" -> TRUE
    [] type = "Option<struct>" -> v.t \in {"null", "object"}
    [] type = "Option<Vec>" -> v.t \in {"null", "array"}

Decodes(doc, schema) ==
  CASE doc.form = "object" ->
         \A i \in 1..Len(schema) :
           IF schema[i].name \in DOMAIN doc.members
             THEN TypeOk(schema[i].type, doc.members[schema[i].name])
             ELSE schema[i].type \in OptionalTypes
    [] doc.form = "array" ->
         /\ Len(doc.elems) = Len(schema)
         /\ \A i \in 1..Len(schema) : TypeOk(schema[i].type, doc.elems[i])
    [] OTHER -> FALSE

\* The decoded struct: every field's value, JNull for an Option that is None.
Decoded(doc, schema) ==
  [n \in {schema[i].name : i \in 1..Len(schema)} |->
     LET i == CHOOSE j \in 1..Len(schema) : schema[j].name = n
     IN IF doc.form = "array" THEN doc.elems[i]
        ELSE IF n \in DOMAIN doc.members THEN doc.members[n]
        ELSE JNull]

OauthErrorResponse ==
  <<Field("error", "String"), Field("error_description", "String"),
    Field("error_uri", "Option<String>")>>

OauthTokenResponse ==
  <<Field("access_token", "String"), Field("scope", "Option<String>"),
    Field("token_type", "String"), Field("expires_in", "u64"),
    Field("refresh_token", "Option<String>"), Field("id_token", "Option<String>")>>

OrganizationResponse ==
  <<Field("id", "String"), Field("name", "String"),
    Field("display_name", "Option<String>"), Field("branding", "Option<struct>"),
    Field("metadata", "Option<Value>"), Field("enabled_connections", "Option<Vec>")>>

CreateUserResponse ==
  <<Field("user_id", "String"), Field("email", "String"),
    Field("email_verified", "bool"), Field("given_name", "Option<String>"),
    Field("family_name", "Option<String>"), Field("name", "Option<String>"),
    Field("nickname", "Option<String>"), Field("picture", "Option<String>"),
    Field("phone_number", "Option<String>"), Field("phone_verified", "Option<bool>"),
    Field("user_metadata", "Option<Value>"), Field("app_metadata", "Option<Value>"),
    Field("blocked", "Option<bool>"), Field("created_at", "String"),
    Field("updated_at", "String"), Field("identities", "Vec")>>

CreatePasswordChangeTicketResponse == <<Field("ticket", "String")>>

(***************************************************************************)
(* A response is [status, body, readable]: the HTTP status, the body as    *)
(* sent, and whether reading the body succeeds.                            *)
(***************************************************************************)
\* StatusCode::is_success
IsSuccess(status) == status >= 200 /\ status < 300

\* resp.text().await.unwrap_or_default()
TextOrDefault_KeepsBody(resp) == resp.body

TextOrDefault(resp) == IF resp.readable THEN resp.body ELSE Raw("")

FromResponse_ConflictAsUnexpected(resp) ==
  LET status == resp.status
      body == TextOrDefault(resp)
  IN CASE status = 400 -> InvalidRequest(body)
       [] status = 401 -> Unauthorized(body)
       [] status = 403 -> Forbidden(body)
       [] status = 429 -> TooManyRequests(body)
       [] OTHER -> UnexpectedResponse(status, body)

FromResponse_BodyFirst(resp) ==
  IF ~resp.readable THEN Transport("body")
  ELSE
    LET status == resp.status
        body == resp.body
    IN CASE status = 400 -> InvalidRequest(body)
         [] status = 401 -> Unauthorized(body)
         [] status = 403 -> Forbidden(body)
         [] status = 409 -> Conflict(status, body)
         [] status = 429 -> TooManyRequests(body)
         [] OTHER -> UnexpectedResponse(status, body)

\* Auth0Error::from_response
FromResponse(resp) ==
  LET status == resp.status
      body == TextOrDefault(resp)
  IN CASE status = 400 -> InvalidRequest(body)
       [] status = 401 -> Unauthorized(body)
       [] status = 403 -> Forbidden(body)
       [] status = 409 -> Conflict(status, body)
       [] status = 429 -> TooManyRequests(body)
       [] OTHER -> UnexpectedResponse(status, body)

\* resp.json::<T>().await: a body that cannot be read or decoded is a
\* reqwest::Error, which becomes Transport.
JsonBody(resp, schema) ==
  IF ~resp.readable THEN Transport("body")
  ELSE IF Decodes(resp.body, schema) THEN Ok(Decoded(resp.body, schema))
  ELSE Transport("decode")

\* resp.text().await?
TextBody(resp) == IF resp.readable THEN Ok(resp.body) ELSE Transport("body")

\* The part of each endpoint function that follows the send().await.
ChangePasswordHandle(resp) ==
  IF IsSuccess(resp.status) THEN TextBody(resp) ELSE FromResponse(resp)

CreateUserHandle(resp) ==
  IF IsSuccess(resp.status) THEN JsonBody(resp, CreateUserResponse)
  ELSE FromResponse(resp)

CreatePasswordChangeTicketHandle(resp) ==
  IF IsSuccess(resp.status) THEN JsonBody(resp, CreatePasswordChangeTicketResponse)
  ELSE FromResponse(resp)

CreateOrganizationHandle(resp) ==
  IF resp.status \in {201, 200} THEN JsonBody(resp, OrganizationResponse)
  ELSE FromResponse(resp)

PatchOrganizationHandle(resp) ==
  IF resp.status = 200 THEN JsonBody(resp, OrganizationResponse)
  ELSE FromResponse(resp)

PostMembersHandle_AnySuccess(resp) ==
  IF IsSuccess(resp.status) THEN Ok(<<>>)
  ELSE FromResponse(resp)

PostMembersHandle(resp) ==
  IF resp.status \in {204, 200, 201} THEN Ok(<<>>)
  ELSE FromResponse(resp)

\* The match on oauth_error.error of get_oauth_token.
OauthClassify_ByStatus(status, error, description) ==
  CASE status = 400 -> InvalidRequest(Raw(description))
    [] status = 401 -> Unauthorized(Raw(description))
    [] status = 403 -> Forbidden(Raw(description))
    [] OTHER -> UnexpectedResponse(status, Raw(error \o ": " \o description))

OauthClassify_BareDescription(status, error, description) ==
  CASE error = "invalid_request" -> InvalidRequest(Raw(description))
    [] error \in {"unauthorized_client", "invalid_client"} ->
         Unauthorized(Raw(description))
    [] error \in {"access_denied", "insufficient_scope"} ->
         Forbidden(Raw(description))
    [] OTHER -> UnexpectedResponse(status, Raw(description))

OauthClassify(status, error, description) ==
  CASE error = "invalid_request" -> InvalidRequest(Raw(description))
    [] error \in {"unauthorized_client", "invalid_client"} ->
         Unauthorized(Raw(description))
    [] error \in {"access_denied", "insufficient_scope"} ->
         Forbidden(Raw(description))
    [] OTHER -> UnexpectedResponse(status, Raw(error \o ": " \o description))

\* The fallback match on status.as_u16() of get_oauth_token.
OauthFallback_FromResponse(status, body) ==
  FromResponse([status |-> status, body |-> body, readable |-> TRUE])

OauthFallback(status, body) ==
  CASE status = 400 -> InvalidRequest(body)
    [] status = 401 -> Unauthorized(body)
    [] status = 403 -> Forbidden(body)
    [] status = 429 -> TooManyRequests(body)
    [] OTHER -> UnexpectedResponse(status, body)

GetOauthTokenHandle(resp) ==
  IF IsSuccess(resp.status) THEN JsonBody(resp, OauthTokenResponse)
  ELSE
    LET status == resp.status
        body == TextOrDefault(resp)
    IN IF Decodes(body, OauthErrorResponse)
         THEN LET oauth_error == Decoded(body, OauthErrorResponse)
              IN OauthClassify(status, oauth_error["error"].s,
                               oauth_error["error_description"].s)
         ELSE OauthFallback(status, body)

Handle(endpoint, resp) ==
  CASE endpoint = "change_password" -> ChangePasswordHandle(resp)
    [] endpoint = "get_oauth_token" -> GetOauthTokenHandle(resp)
    [] endpoint = "create_organization" -> CreateOrganizationHandle(resp)
    [] endpoint = "patch_organization" -> PatchOrganizationHandle(resp)
    [] endpoint = "post_members" -> PostMembersHandle(resp)
    [] endpoint = "create_user" -> CreateUserHandle(resp)
    [] endpoint = "create_password_change_ticket" ->
         CreatePasswordChangeTicketHandle(resp)

(***************************************************************************)
(* State.  build is the build mode of the crate; token and domain hold the *)
(* last constructor call (its input and its Result); shown holds the last  *)
(* text read from the token, url the last URL made from the domain.        *)
(* builder is a request builder being filled, request the request value    *)
(* built or written down, wire its JSON form.  call, response, result and  *)
(* sent belong to one endpoint function call; invocations holds the calls  *)
(* that are in progress at the same time, each with its own inputs,        *)
(* request, response and result.                                           *)
(***************************************************************************)
Builds == {"production", "test"}

Idle == [pc |-> "idle"]

\* The endpoint function invocations that may be in progress together.
Invocations == 1..MaxInvocations

Init ==
  /\ build \in Builds
  /\ token = None
  /\ shown = None
  /\ domain = None
  /\ url = None
  /\ builder = None
  /\ request = None
  /\ wire = None
  /\ call = Idle
  /\ response = None
  /\ result = None
  /\ sent = 0
  /\ invocations = [i \in Invocations |-> Idle]

(***************************************************************************)
(* The value types as operations.                                          *)
(***************************************************************************)
\* space, tab, LF, CR, NBSP (whitespace); ZWSP U+200B (not whitespace), a, R
TokenChars == {32, 9, 10, 13, 160, 8203, 97, 82}

TokenInputs == SeqsUpTo(TokenChars, MaxTokenLen)

NewToken(raw) ==
  /\ token = None
  /\ token' = [raw |-> raw, res |-> BearerTokenNew(raw)]
  /\ shown' = None
  /\ UNCHANGED <<build, invocations, domain, url, builder, request, wire, call, response, result, sent>>

HasToken == token # None /\ token.res.kind = "Ok"

ReadToken(how) ==
  /\ HasToken
  /\ shown' =
       [how |-> how,
        text |-> CASE how = "as_str" -> TokenAsStr(token.res.value)
                   [] how = "Debug" -> TokenDebug(token.res.value)
                   [] how = "DebugPretty" -> TokenDebugPretty(token.res.value)
                   [] how = "Display" -> TokenDisplay(token.res.value)]
  /\ UNCHANGED <<build, invocations, token, domain, url, builder, request, wire, call, response, result, sent>>

\* The token goes out of scope.
DropToken ==
  /\ token # None
  /\ token' = None
  /\ shown' = None
  /\ UNCHANGED <<build, invocations, domain, url, builder, request, wire, call, response, result, sent>>

TokenAsStrCall == ReadToken("as_str")

TokenDebugCall == ReadToken("Debug")

TokenDebugPrettyCall == ReadToken("DebugPretty")

TokenDisplayCall == ReadToken("Display")

NextToken ==
  \/ \E raw \in TokenInputs : NewToken(raw)
  \/ TokenAsStrCall
  \/ TokenDebugCall
  \/ TokenDebugPrettyCall
  \/ TokenDisplayCall
  \/ DropToken

SpecToken == Init /\ [][NextToken]_vars

\* "", "http://", "https://", "ftp://", "HTTPS://"
SchemePrefixes ==
  {<<>>, HTTP, HTTPS, <<102, 116, 112, 58, 47, 47>>,
   <<72, 84, 84, 80, 83, 58, 47, 47>>}

\* a . / :
DomainChars == {97, 46, 47, 58}

DomainInputs ==
  {p \o r : p \in SchemePrefixes, r \in SeqsUpTo(DomainChars, MaxDomainLen)}

NewDomain(raw) ==
  /\ domain = None
  /\ domain' = [raw |-> raw, res |-> DomainNew(build, raw)]
  /\ UNCHANGED <<build, invocations, token, shown, url, builder, request, wire, call,
                 response, result, sent>>

\* "" and "/x"
UrlPaths == {<<>>, <<47, 120>>}

\* domain.to_url(path); url holds the path and the text returned.
DomainToUrlCall(path) ==
  /\ domain # None
  /\ domain.res.kind = "Ok"
  /\ url' = [path |-> path, text |-> DomainToUrl(domain.res.value, path)]
  /\ UNCHANGED <<build, invocations, token, shown, domain, builder, request, wire, call,
                 response, result, sent>>

\* The domain goes out of scope.
DropDomain ==
  /\ domain # None
  /\ domain' = None
  /\ url' = None
  /\ UNCHANGED <<build, invocations, token, shown, builder, request, wire, call, response,
                 result, sent>>

NextDomain ==
  \/ \E raw \in DomainInputs : NewDomain(raw)
  \/ \E path \in UrlPaths : DomainToUrlCall(path)
  \/ DropDomain

SpecDomain == Init /\ [][NextDomain]_vars

(***************************************************************************)
(* The endpoint functions.  Each is one async function with one suspension *)
(* point that matters, send().await: the first action runs the function up *)
(* to the send, the environment then fails the exchange or delivers a      *)
(* response, and Dispatch runs the rest of the function.                   *)
(***************************************************************************)
REQUEST_TIMEOUT == 30

\* "/dbconnections/change_password"
ChangePasswordPath ==
  <<47, 100, 98, 99, 111, 110, 110, 101, 99, 116, 105, 111, 110, 115, 47, 99,
    104, 97, 110, 103, 101, 95, 112, 97, 115, 115, 119, 111, 114, 100>>

\* "/oauth/token"
OauthTokenPath == <<47, 111, 97, 117, 116, 104, 47, 116, 111, 107, 101, 110>>

\* "/api/v2/organizations"
OrganizationsPath ==
  <<47, 97, 112, 105, 47, 118, 50, 47, 111, 114, 103, 97, 110, 105, 122, 97,
    116, 105, 111, 110, 115>>

\* "/api/v2/users"
UsersPath == <<47, 97, 112, 105, 47, 118, 50, 47, 117, 115, 101, 114, 115>>

\* "/api/v2/tickets/password-change"
PasswordChangePath ==
  <<47, 97, 112, 105, 47, 118, 50, 47, 116, 105, 99, 107, 101, 116, 115, 47,
    112, 97, 115, 115, 119, 111, 114, 100, 45, 99, 104, 97, 110, 103, 101>>

\* format!("/api/v2/organizations/{organization_id}")
OrganizationPath(organization_id) == OrganizationsPath \o <<47>> \o organization_id

\* format!("/api/v2/organizations/{organization_id}/members")
MembersPath(organization_id) ==
  OrganizationsPath \o <<47>> \o organization_id
    \o <<47, 109, 101, 109, 98, 101, 114, 115>>

\* bearer_auth(token.as_str()): the Authorization header "Bearer <token>".
BearerAuth_Redacted(t) == <<66, 101, 97, 114, 101, 114, 32>> \o TokenDisplay(t)

BearerAuth(t) == <<66, 101, 97, 114, 101, 114, 32>> \o TokenAsStr(t)

NoAuth == <<>>

\* The request goes out: the function is suspended in send().await.
Sending(endpoint, args, method, target, auth, timeout) ==
  /\ call' = [pc |-> "awaiting", endpoint |-> endpoint, args |-> args,
              request |-> [method |-> method, url |-> target, auth |-> auth,
                           timeout |-> timeout]]
  /\ sent' = sent + 1
  /\ UNCHANGED <<response, result>>

\* The function returns r before any request is sent.
Returning(endpoint, args, r) ==
  /\ call' = [pc |-> "done", endpoint |-> endpoint, args |-> args,
              request |-> None]
  /\ result' = r
  /\ UNCHANGED <<response, sent>>

\* The domains and tokens the calls are made with: the values the
\* constructors accept among "a.a", "http://a" and "a", "a b".
CallDomains ==
  {DomainNew(build, raw).value :
     raw \in {r \in {<<97, 46, 97>>, HTTP \o <<97>>} : DomainNew(build, r).kind = "Ok"}}

CallTokens ==
  {BearerTokenNew(raw).value :
     raw \in {r \in {<<97>>, <<97, 32, 98>>} : BearerTokenNew(r).kind = "Ok"}}

\* "" and "o"
OrganizationIds == {<<>>, <<111>>}

MemberLists == {<<>>, <<"auth0|1">>}

ChangePassword(d) ==
  /\ call.pc = "idle"
  /\ Sending("change_password", [domain |-> d], "POST", DomainToUrl(d, ChangePasswordPath),
             NoAuth, <<>>)
  /\ UNCHANGED <<build, invocations, token, shown, domain, url, builder, request, wire>>

GetOauthToken(d) ==
  /\ call.pc = "idle"
  /\ Sending("get_oauth_token", [domain |-> d], "POST", DomainToUrl(d, OauthTokenPath),
             NoAuth, <<>>)
  /\ UNCHANGED <<build, invocations, token, shown, domain, url, builder, request, wire>>

CreateUser(d, t) ==
  /\ call.pc = "idle"
  /\ Sending("create_user", [domain |-> d, token |-> t], "POST",
             DomainToUrl(d, UsersPath), BearerAuth(t), <<>>)
  /\ UNCHANGED <<build, invocations, token, shown, domain, url, builder, request, wire>>

CreatePasswordChangeTicket(d, t) ==
  /\ call.pc = "idle"
  /\ Sending("create_password_change_ticket", [domain |-> d, token |-> t],
             "POST", DomainToUrl(d, PasswordChangePath), BearerAuth(t), <<>>)
  /\ UNCHANGED <<build, invocations, token, shown, domain, url, builder, request, wire>>

\* clientBuilt: whether Client::builder().timeout(..).build() succeeds.
CreateOrganization(d, t, clientBuilt) ==
  /\ call.pc = "idle"
  /\ LET args == [domain |-> d, token |-> t]
     IN IF ~clientBuilt
          THEN Returning("create_organization", args, Transport("builder"))
          ELSE Sending("create_organization", args, "POST",
                       DomainToUrl(d, OrganizationsPath), BearerAuth(t),
                       <<REQUEST_TIMEOUT>>)
  /\ UNCHANGED <<build, invocations, token, shown, domain, url, builder, request, wire>>

PatchOrganization(d, t, organization_id, clientBuilt) ==
  /\ call.pc = "idle"
  /\ LET args == [domain |-> d, token |-> t,
                  organization_id |-> organization_id]
     IN IF ~clientBuilt
          THEN Returning("patch_organization", args, Transport("builder"))
          ELSE Sending("patch_organization", args, "PATCH",
                       DomainToUrl(d, OrganizationPath(organization_id)),
                       BearerAuth(t), <<REQUEST_TIMEOUT>>)
  /\ UNCHANGED <<build, invocations, token, shown, domain, url, builder, request, wire>>

\* The validation at the head of post_members.
PostMembersValidate_MembersFirst(organization_id, members) ==
  IF members = <<>>
    THEN InvalidRequest(Raw("Members array cannot be empty"))
  ELSE IF organization_id = <<>>
    THEN InvalidRequest(Raw("Organization ID cannot be empty"))
  ELSE Ok(<<>>)

PostMembersValidate(organization_id, members) ==
  IF organization_id = <<>>
    THEN InvalidRequest(Raw("Organization ID cannot be empty"))
  ELSE IF members = <<>>
    THEN InvalidRequest(Raw("Members array cannot be empty"))
  ELSE Ok(<<>>)

PostMembers(d, t, organization_id, members, clientBuilt) ==
  /\ call.pc = "idle"
  /\ LET args == [domain |-> d, token |-> t,
                  organization_id |-> organization_id, members |-> members]
         valid == PostMembersValidate(organization_id, members)
     IN IF IsErr(valid)
          THEN Returning("post_members", args, valid)
        ELSE IF ~clientBuilt
          THEN Returning("post_members", args, Transport("builder"))
        ELSE Sending("post_members", args, "POST",
                     DomainToUrl(d, MembersPath(organization_id)),
                     BearerAuth(t), <<REQUEST_TIMEOUT>>)
  /\ UNCHANGED <<build, invocations, token, shown, domain, url, builder, request, wire>>

\* send().await fails: no connection, or the exchange is broken off.
SendFails_Retry ==
  /\ call.pc = "awaiting"
  /\ sent < 3
  /\ sent' = sent + 1
  /\ UNCHANGED <<build, invocations, token, shown, domain, url, builder, request, wire,
                 call, response, result>>

SendFails ==
  /\ call.pc = "awaiting"
  /\ call' = [call EXCEPT !.pc = "done"]
  /\ result' = Transport("send")
  /\ UNCHANGED <<build, invocations, token, shown, domain, url, builder, request, wire, response, sent>>

\* The client's timeout runs out before the response is there.
TimeoutElapses ==
  /\ call.pc = "awaiting"
  /\ call.request.timeout # <<>>
  /\ call' = [call EXCEPT !.pc = "done"]
  /\ result' = Transport("timeout")
  /\ UNCHANGED <<build, invocations, token, shown, domain, url, builder, request, wire, response, sent>>

(***************************************************************************)
(* The responses the server may give.                                      *)
(***************************************************************************)
Statuses == {200, 201, 202, 204, 302, 400, 401, 403, 404, 409, 429, 500}

Absent == [t |-> "absent", s |-> "", n |-> 0]

Member(k, v) == IF v = Absent THEN <<>> ELSE (k :> v)

ErrorCodes ==
  {"invalid_request", "unauthorized_client", "invalid_client", "access_denied",
   "insufficient_scope", "too_many_requests"}

\* Objects with any of the members error, error_description, error_uri.
EnvelopeBodies ==
  {Obj(Member("error", e) @@ Member("error_description", d)
         @@ Member("error_uri", u)) :
     e \in {Absent, JNum(1)} \cup {JStr(c) : c \in ErrorCodes},
     d \in {Absent, JStr("bad"), JNull},
     u \in {Absent, JStr("uri"), JNum(1)}}

ArrayBodies ==
  {Arr(<<JStr(c), JStr("bad"), JNull>>) : c \in {"invalid_client", "too_many_requests"}}
    \cup {Arr(<<JStr("invalid_client"), JStr("bad")>>), Arr(<<JStr("url")>>),
          Arr(<<>>)}

UserMembers ==
  ("user_id" :> JStr("auth0|1")) @@ ("email" :> JStr("u@e.com"))
    @@ ("email_verified" :> JBool) @@ ("created_at" :> JStr("2024"))
    @@ ("updated_at" :> JStr("2024"))

SuccessBodies ==
  {Obj(("access_token" :> JStr("t")) @@ ("token_type" :> JStr("Bearer"))
         @@ ("expires_in" :> n) @@ Member("refresh_token", r)) :
     n \in {JNum(3600), JNum(-1), JStr("3600")}, r \in {Absent, JNull, JStr("r")}}
    \cup {Obj(("id" :> JStr("org_1")) @@ Member("name", n) @@ Member("branding", b)) :
            n \in {Absent, JStr("acme")}, b \in {Absent, JEmptyObj, JStr("x")}}
    \cup {Obj("ticket" :> v) : v \in {JStr("url"), JNum(1)}}
    \cup {Obj(UserMembers @@ Member("identities", i)) : i \in {Absent, JEmptyArr}}
    \cup {Obj("invalid" :> JStr("response")), Obj(<<>>)}

RawBodies == {Raw("plain text"), Raw("")}

\* The body of a response whose body cannot be read to its end.
BrokenBody == Raw("plain text")

Bodies == EnvelopeBodies \cup ArrayBodies \cup SuccessBodies \cup RawBodies

\* The response arrives: send().await returns it.
Receive(status, body, readable) ==
  /\ call.pc = "awaiting"
  /\ call' = [call EXCEPT !.pc = "responded"]
  /\ response' = [status |-> status, body |-> body, readable |-> readable]
  /\ UNCHANGED <<build, invocations, token, shown, domain, url, builder, request, wire, result, sent>>

\* The rest of the endpoint function, from response.status() to its return.
Dispatch ==
  /\ call.pc = "responded"
  /\ call' = [call EXCEPT !.pc = "done"]
  /\ result' = Handle(call.endpoint, response)
  /\ UNCHANGED <<build, invocations, token, shown, domain, url, builder, request, wire, response, sent>>

\* The caller takes the result; the call's values are dropped.
Return ==
  /\ call.pc = "done"
  /\ call' = Idle
  /\ response' = None
  /\ result' = None
  /\ sent' = 0
  /\ UNCHANGED <<build, invocations, token, shown, domain, url, builder, request, wire>>

Next ==
  \/ \E d \in CallDomains : ChangePassword(d)
  \/ \E d \in CallDomains : GetOauthToken(d)
  \/ \E d \in CallDomains, t \in CallTokens : CreateUser(d, t)
  \/ \E d \in CallDomains, t \in CallTokens : CreatePasswordChangeTicket(d, t)
  \/ \E d \in CallDomains, t \in CallTokens, clientBuilt \in BOOLEAN :
       CreateOrganization(d, t, clientBuilt)
  \/ \E d \in CallDomains, t \in CallTokens, id \in OrganizationIds,
        clientBuilt \in BOOLEAN :
       PatchOrganization(d, t, id, clientBuilt)
  \/ \E d \in CallDomains, t \in CallTokens, id \in OrganizationIds,
        members \in MemberLists, clientBuilt \in BOOLEAN :
       PostMembers(d, t, id, members, clientBuilt)
  \/ SendFails
  \/ TimeoutElapses
  \/ \E status \in Statuses, body \in Bodies : Receive(status, body, TRUE)
  \/ \E status \in Statuses : Receive(status, BrokenBody, FALSE)
  \/ Dispatch
  \/ Return

Spec == Init /\ [][Next]_vars

(***************************************************************************)
(* Request values.  An Option is Nothing or Some(v).  A struct value is a  *)
(* function from its field names to their values.  Strings of request      *)
(* fields are sequences of code points.                                    *)
(***************************************************************************)
Nothing == <<>>

Some(v) == <<v>>

\* JSON values written by serialization.
JsonString(s) == [t |-> "string", v |-> s]

JsonNumber(n) == [t |-> "number", v |-> n]

JsonBool(b) == [t |-> "bool", v |-> b]

JsonNull == [t |-> "null"]

JsonArray(q) == [t |-> "array", elems |-> q]

JsonObject(f) == [t |-> "object", members |-> f]

\* A field of a struct: its name, its key in JSON, whether it is an Option,
\* whether it carries skip_serializing_if = "Option::is_none", and its type.
Fld(name, ty) ==
  [name |-> name, key |-> name, optional |-> FALSE, skip |-> FALSE, ty |-> ty]

Opt(name, ty) ==
  [name |-> name, key |-> name, optional |-> TRUE, skip |-> TRUE, ty |-> ty]

OptAs(name, key, ty) ==
  [name |-> name, key |-> key, optional |-> TRUE, skip |-> TRUE, ty |-> ty]

ChangePasswordRequest ==
  {Fld("client_id", "String"), Fld("email", "String"),
   Fld("connection", "String"), Opt("organization", "String")}

CreateUserRequest ==
  {Fld("email", "String"), Fld("connection", "String"),
   Opt("password", "String"), Opt("given_name", "String"),
   Opt("family_name", "String"), Opt("name", "String"),
   Opt("nickname", "String"), Opt("picture", "String"),
   Opt("user_id", "String"), Opt("email_verified", "bool"),
   Opt("phone_number", "String"), Opt("phone_verified", "bool"),
   Opt("user_metadata", "Value"), Opt("app_metadata", "Value"),
   Opt("blocked", "bool")}

CreatePasswordChangeTicketRequest ==
  {Fld("user_id", "String"), Opt("result_url", "String"),
   Opt("ttl_sec", "i32"), Opt("mark_email_as_verified", "bool"),
   OptAs("include_email_in_redirect", "includeEmailInRedirect", "bool"),
   Opt("new_email", "String"), Opt("connection_id", "String"),
   Opt("client_id", "String"), Opt("organization_id", "String")}

BrandingColors ==
  {Opt("primary", "String"), Opt("page_background", "String")}

OrganizationBranding ==
  {Opt("logo_url", "String"), Opt("colors", "BrandingColors")}

EnabledConnection ==
  {Fld("connection_id", "String"), Fld("assign_membership_on_login", "bool"),
   Fld("show_as_button", "bool"), Fld("is_signup_enabled", "bool")}

CreateOrganizationRequest ==
  {Fld("name", "String"), Opt("display_name", "String"),
   Opt("branding", "OrganizationBranding"), Opt("metadata", "Value"),
   Opt("enabled_connections", "Vec<EnabledConnection>")}

PatchOrganizationRequest ==
  {Opt("display_name", "String"), Opt("name", "String"),
   Opt("branding", "OrganizationBranding"), Opt("metadata", "Value"),
   Opt("enabled_connections", "Vec<EnabledConnection>")}

AddMembersRequest == {Fld("members", "Vec<String>")}

OauthTokenRequest ==
  {Fld("grant_type", "String"), Fld("client_id", "String"),
   Opt("client_secret", "String"), Opt("audience", "String"),
   Opt("code", "String"), Opt("redirect_uri", "String"),
   Opt("code_verifier", "String"), Opt("refresh_token", "String"),
   Opt("scope", "String")}

StructFields(ty) ==
  CASE ty = "ChangePasswordRequest" -> ChangePasswordRequest
    [] ty = "CreateUserRequest" -> CreateUserRequest
    [] ty = "CreatePasswordChangeTicketRequest" -> CreatePasswordChangeTicketRequest
    [] ty = "BrandingColors" -> BrandingColors
    [] ty = "OrganizationBranding" -> OrganizationBranding
    [] ty = "EnabledConnection" -> EnabledConnection
    [] ty = "CreateOrganizationRequest" -> CreateOrganizationRequest
    [] ty = "PatchOrganizationRequest" -> PatchOrganizationRequest
    [] ty = "AddMembersRequest" -> AddMembersRequest
    [] ty = "OauthTokenRequest" -> OauthTokenRequest

StructTypes ==
  {"ChangePasswordRequest", "CreateUserRequest",
   "CreatePasswordChangeTicketRequest", "BrandingColors",
   "OrganizationBranding", "EnabledConnection", "CreateOrganizationRequest",
   "PatchOrganizationRequest", "AddMembersRequest", "OauthTokenRequest"}

ElemType(ty) ==
  IF ty = "Vec<String>" THEN "String" ELSE "EnabledConnection"

\* skip_serializing_if = "Option::is_none"
Skipped_Never(f, x) == FALSE

Skipped_Optional(f, x) == f.skip

Skipped(f, x) == f.skip /\ x = Nothing

\* serde's Serialize into JSON: a derived struct writes one member per
\* field that is not skipped; None is written as null, Some(v) as v.
RECURSIVE Serialize(_, _)
Serialize(ty, v) ==
  CASE ty = "String" -> JsonString(v)
    [] ty = "bool" -> JsonBool(v)
    [] ty = "i32" -> JsonNumber(v)
    [] ty = "Value" -> v
    [] ty \in {"Vec<String>", "Vec<EnabledConnection>"} ->
         JsonArray([i \in 1..Len(v) |-> Serialize(ElemType(ty), v[i])])
    [] ty \in StructTypes ->
         LET kept == {f \in StructFields(ty) : ~Skipped(f, v[f.name])}
             Written(f) ==
               IF ~f.optional THEN Serialize(f.ty, v[f.name])
               ELSE IF v[f.name] = Nothing THEN JsonNull
               ELSE Serialize(f.ty, v[f.name][1])
         IN JsonObject([k \in {f.key : f \in kept} |->
                          Written(CHOOSE f \in kept : f.key = k)])

(***************************************************************************)
(* Request builders.  A builder struct is a function from its field names  *)
(* to Options, all None at first (derive(Default)).                        *)
(***************************************************************************)
MaxSetterCalls == 3

BuilderTypes ==
  {"ChangePasswordRequest", "CreateUserRequest",
   "CreatePasswordChangeTicketRequest"}

BuilderDefault(ty) == [n \in {f.name : f \in StructFields(ty)} |-> Nothing]

\* A setter: self.field = Some(value.into())
SetField_KeepFirst(b, field, value) ==
  IF b[field] = Nothing THEN [b EXCEPT ![field] = Some(value)] ELSE b

SetField(b, field, value) == [b EXCEPT ![field] = Some(value)]

ChangePasswordRequestBuild(b) ==
  IF b.client_id = Nothing
    THEN InvalidRequest(Raw("Client ID is required"))
  ELSE IF b.email = Nothing
    THEN InvalidRequest(Raw("Email is required"))
  ELSE IF ~ContainsChar(b.email[1], 64)
    THEN InvalidRequest(Raw("Invalid email format"))
  ELSE IF b.connection = Nothing
    THEN InvalidRequest(Raw("Connection is required"))
  ELSE Ok([client_id |-> b.client_id[1], email |-> b.email[1],
           connection |-> b.connection[1], organization |-> b.organization])

CreateUserRequestBuild(b) ==
  IF b.email = Nothing
    THEN InvalidRequest(Raw("Email is required"))
  ELSE IF b.connection = Nothing
    THEN InvalidRequest(Raw("Connection is required"))
  ELSE IF ~ContainsChar(b.email[1], 64)
    THEN InvalidRequest(Raw("Invalid email format"))
  ELSE Ok([b EXCEPT !.email = b.email[1], !.connection = b.connection[1]])

CreatePasswordChangeTicketRequestBuild_TtlFirst(b) ==
  IF b.user_id = Nothing
    THEN InvalidRequest(Raw("User ID is required"))
  ELSE IF b.ttl_sec # Nothing /\ b.ttl_sec[1] <= 0
    THEN InvalidRequest(Raw("TTL must be positive"))
  ELSE IF b.new_email # Nothing /\ ~ContainsChar(b.new_email[1], 64)
    THEN InvalidRequest(Raw("Invalid email format"))
  ELSE Ok([b EXCEPT !.user_id = b.user_id[1]])

CreatePasswordChangeTicketRequestBuild_ZeroAllowed(b) ==
  IF b.user_id = Nothing
    THEN InvalidRequest(Raw("User ID is required"))
  ELSE IF b.new_email # Nothing /\ ~ContainsChar(b.new_email[1], 64)
    THEN InvalidRequest(Raw("Invalid email format"))
  ELSE IF b.ttl_sec # Nothing /\ b.ttl_sec[1] < 0
    THEN InvalidRequest(Raw("TTL must be positive"))
  ELSE Ok([b EXCEPT !.user_id = b.user_id[1]])

CreatePasswordChangeTicketRequestBuild(b) ==
  IF b.user_id = Nothing
    THEN InvalidRequest(Raw("User ID is required"))
  ELSE IF b.new_email # Nothing /\ ~ContainsChar(b.new_email[1], 64)
    THEN InvalidRequest(Raw("Invalid email format"))
  ELSE IF b.ttl_sec # Nothing /\ b.ttl_sec[1] <= 0
    THEN InvalidRequest(Raw("TTL must be positive"))
  ELSE Ok([b EXCEPT !.user_id = b.user_id[1]])

BuildOf(ty, b) ==
  CASE ty = "ChangePasswordRequest" -> ChangePasswordRequestBuild(b)
    [] ty = "CreateUserRequest" -> CreateUserRequestBuild(b)
    [] ty = "CreatePasswordChangeTicketRequest" ->
         CreatePasswordChangeTicketRequestBuild(b)

\* The least and the greatest i32.
I32_MIN == -2147483647 - 1

I32_MAX == 2147483647

\* "a@b" and "a"
Emails == {<<97, 64, 98>>, <<97>>}

BoolFields ==
  {"email_verified", "phone_verified", "blocked", "mark_email_as_verified",
   "include_email_in_redirect"}

\* The values the setters are called with.
SetterValues(field) ==
  CASE field \in {"email", "new_email"} -> Emails
    [] field = "ttl_sec" -> {I32_MIN, 0, 1, I32_MAX}
    [] field \in {"blocked", "include_email_in_redirect"} -> BOOLEAN
    [] field \in BoolFields \ {"blocked", "include_email_in_redirect"} -> {TRUE}
    [] field = "user_metadata" -> {JsonNull}
    [] field = "app_metadata" -> {JsonObject(<<>>)}
    [] OTHER -> {<<120>>}

SetterFields ==
  UNION {{f.name : f \in StructFields(ty)} : ty \in BuilderTypes}

\* X::builder()
NewBuilder(ty) ==
  /\ builder = None
  /\ request = None
  /\ builder' = [type |-> ty, calls |-> <<>>, fields |-> BuilderDefault(ty)]
  /\ UNCHANGED <<build, invocations, token, shown, domain, url, request, wire, call,
                 response, result, sent>>

\* One setter call; calls records the calls made so far.
Set(field, value) ==
  /\ builder # None
  /\ Len(builder.calls) < MaxSetterCalls
  /\ field \in DOMAIN builder.fields
  /\ builder' = [builder EXCEPT
                   !.calls = Append(@, [field |-> field, value |-> value]),
                   !.fields = SetField(@, field, value)]
  /\ UNCHANGED <<build, invocations, token, shown, domain, url, request, wire, call,
                 response, result, sent>>

\* build(self): the builder is consumed.
Build ==
  /\ builder # None
  /\ request' = [type |-> builder.type, calls |-> builder.calls,
                 built |-> TRUE, res |-> BuildOf(builder.type, builder.fields)]
  /\ builder' = None
  /\ UNCHANGED <<build, invocations, token, shown, domain, url, wire, call, response,
                 result, sent>>

\* Request values written as struct literals (all fields are pub).
OptString == {Nothing, Some(<<120>>)}

ColorsValues == [primary : OptString, page_background : OptString]

BrandingValues ==
  [logo_url : OptString,
   colors : {Nothing} \cup {Some(c) : c \in ColorsValues}]

EnabledConnectionValue ==
  [connection_id |-> <<99>>, assign_membership_on_login |-> FALSE,
   show_as_button |-> TRUE, is_signup_enabled |-> FALSE]

OptBranding == {Nothing} \cup {Some(b) : b \in BrandingValues}

OptMetadata == {Nothing, Some(JsonNull), Some(JsonObject(<<>>))}

OptConnections == {Nothing, Some(<<>>), Some(<<EnabledConnectionValue>>)}

Literals(ty) ==
  CASE ty = "CreateOrganizationRequest" ->
         [name : {<<120>>}, display_name : OptString, branding : OptBranding,
          metadata : OptMetadata, enabled_connections : OptConnections]
    [] ty = "PatchOrganizationRequest" ->
         [display_name : OptString, name : OptString, branding : OptBranding,
          metadata : OptMetadata, enabled_connections : OptConnections]
    [] ty = "AddMembersRequest" -> [members : {<<>>, <<(<<117>>)>>}]
    [] ty = "OauthTokenRequest" ->
         [grant_type : {<<103>>}, client_id : {<<99>>},
          client_secret : OptString, audience : OptString, code : OptString,
          redirect_uri : OptString, code_verifier : OptString,
          refresh_token : OptString, scope : OptString]

LiteralTypes ==
  {"CreateOrganizationRequest", "PatchOrganizationRequest",
   "AddMembersRequest", "OauthTokenRequest"}

MakeRequest(ty, v) ==
  /\ builder = None
  /\ request = None
  /\ request' = [type |-> ty, calls |-> <<>>, built |-> FALSE, res |-> Ok(v)]
  /\ UNCHANGED <<build, invocations, token, shown, domain, url, builder, wire, call,
                 response, result, sent>>

\* .json(request): the request is written as the JSON body.
SerializeRequest ==
  /\ request # None
  /\ request.res.kind = "Ok"
  /\ wire = None
  /\ wire' = Serialize(request.type, request.res.value)
  /\ UNCHANGED <<build, invocations, token, shown, domain, url, builder, request, call,
                 response, result, sent>>

\* The request goes out of scope.
DropRequest ==
  /\ request # None
  /\ request' = None
  /\ wire' = None
  /\ UNCHANGED <<build, invocations, token, shown, domain, url, builder, call, response,
                 result, sent>>

NextRequest ==
  \/ \E ty \in BuilderTypes : NewBuilder(ty)
  \/ \E field \in SetterFields : \E v \in SetterValues(field) : Set(field, v)
  \/ Build
  \/ \E ty \in LiteralTypes : \E v \in Literals(ty) : MakeRequest(ty, v)
  \/ SerializeRequest
  \/ DropRequest

SpecRequest == Init /\ [][NextRequest]_vars

(***************************************************************************)
(* Endpoint functions called concurrently.  Each invocation is a future    *)
(* with its own locals; Domain and BearerToken are borrowed (&Domain,      *)
(* &BearerToken) and every function builds its own Client.                 *)
(***************************************************************************)
Endpoints ==
  {"change_password", "get_oauth_token", "create_organization",
   "patch_organization", "post_members", "create_user",
   "create_password_change_ticket"}

\* The parameters of each endpoint function, of the inputs a.
Params(endpoint, a) ==
  CASE endpoint \in {"change_password", "get_oauth_token"} ->
         [domain |-> a.domain]
    [] endpoint \in {"create_user", "create_password_change_ticket",
                     "create_organization"} ->
         [domain |-> a.domain, token |-> a.token]
    [] endpoint = "patch_organization" ->
         [domain |-> a.domain, token |-> a.token,
          organization_id |-> a.organization_id]
    [] endpoint = "post_members" -> a

\* The function up to its first suspension in send().await, or to its
\* return when it returns before that.
Begin(endpoint, a, clientBuilt) ==
  LET send(method, path, auth, timeout) ==
        [pc |-> "awaiting", endpoint |-> endpoint,
         args |-> Params(endpoint, a),
         request |-> [method |-> method, url |-> DomainToUrl(a.domain, path),
                      auth |-> auth, timeout |-> timeout],
         response |-> None, result |-> None]
      return(r) ==
        [pc |-> "done", endpoint |-> endpoint, args |-> Params(endpoint, a),
         request |-> None, response |-> None, result |-> r]
  IN CASE endpoint = "change_password" ->
            send("POST", ChangePasswordPath, NoAuth, <<>>)
       [] endpoint = "get_oauth_token" ->
            send("POST", OauthTokenPath, NoAuth, <<>>)
       [] endpoint = "create_user" ->
            send("POST", UsersPath, BearerAuth(a.token), <<>>)
       [] endpoint = "create_password_change_ticket" ->
            send("POST", PasswordChangePath, BearerAuth(a.token), <<>>)
       [] endpoint = "create_organization" ->
            IF ~clientBuilt THEN return(Transport("builder"))
            ELSE send("POST", OrganizationsPath, BearerAuth(a.token),
                      <<REQUEST_TIMEOUT>>)
       [] endpoint = "patch_organization" ->
            IF ~clientBuilt THEN return(Transport("builder"))
            ELSE send("PATCH", OrganizationPath(a.organization_id),
                      BearerAuth(a.token), <<REQUEST_TIMEOUT>>)
       [] endpoint = "post_members" ->
            IF IsErr(PostMembersValidate(a.organization_id, a.members))
              THEN return(PostMembersValidate(a.organization_id, a.members))
            ELSE IF ~clientBuilt THEN return(Transport("builder"))
            ELSE send("POST", MembersPath(a.organization_id),
                      BearerAuth(a.token), <<REQUEST_TIMEOUT>>)

\* The inputs of the concurrent invocations: the domain "a.a", the token
\* "a", the organization "o", no member or one.
ConcurrentArgs ==
  [domain : {[inner |-> <<97, 46, 97>>]}, token : CallTokens,
   organization_id : {<<111>>}, members : MemberLists]

\* The responses given to them: a 200 with {"ticket": "url"}, and a 429.
ConcurrentResponses ==
  {[status |-> 200, body |-> Obj("ticket" :> JStr("url")), readable |-> TRUE],
   [status |-> 429, body |-> Raw("plain text"), readable |-> TRUE]}

Invoke(i, endpoint, a, clientBuilt) ==
  /\ invocations[i].pc = "idle"
  /\ invocations' = [invocations EXCEPT ![i] = Begin(endpoint, a, clientBuilt)]
  /\ UNCHANGED <<build, token, shown, domain, url, builder, request, wire,
                 call, response, result, sent>>

SendFailsOf(i) ==
  /\ invocations[i].pc = "awaiting"
  /\ invocations' = [invocations EXCEPT ![i].pc = "done",
                                        ![i].result = Transport("send")]
  /\ UNCHANGED <<build, token, shown, domain, url, builder, request, wire,
                 call, response, result, sent>>

TimeoutElapsesOf(i) ==
  /\ invocations[i].pc = "awaiting"
  /\ invocations[i].request.timeout # <<>>
  /\ invocations' = [invocations EXCEPT ![i].pc = "done",
                                        ![i].result = Transport("timeout")]
  /\ UNCHANGED <<build, token, shown, domain, url, builder, request, wire,
                 call, response, result, sent>>

ReceiveOf(i, resp) ==
  /\ invocations[i].pc = "awaiting"
  /\ invocations' = [invocations EXCEPT ![i].pc = "responded",
                                        ![i].response = resp]
  /\ UNCHANGED <<build, token, shown, domain, url, builder, request, wire,
                 call, response, result, sent>>

\* The response invocation i dispatches on: the one its own send returned.
Seen_Shared(i) ==
  invocations[CHOOSE j \in Invocations :
                invocations[j].pc \in {"responded", "done"}
                  /\ invocations[j].response # None].response

Seen(i) == invocations[i].response

DispatchOf(i) ==
  /\ invocations[i].pc = "responded"
  /\ invocations' =
       [invocations EXCEPT ![i].pc = "done",
                           ![i].result = Handle(invocations[i].endpoint, Seen(i))]
  /\ UNCHANGED <<build, token, shown, domain, url, builder, request, wire,
                 call, response, result, sent>>

\* The caller takes the result; the future is dropped.
ReturnOf(i) ==
  /\ invocations[i].pc = "done"
  /\ invocations' = [invocations EXCEPT ![i] = Idle]
  /\ UNCHANGED <<build, token, shown, domain, url, builder, request, wire,
                 call, response, result, sent>>

NextConcurrent ==
  \/ \E i \in Invocations, endpoint \in Endpoints, a \in ConcurrentArgs,
        clientBuilt \in BOOLEAN :
       Invoke(i, endpoint, a, clientBuilt)
  \/ \E i \in Invocations : SendFailsOf(i)
  \/ \E i \in Invocations : TimeoutElapsesOf(i)
  \/ \E i \in Invocations, resp \in ConcurrentResponses : ReceiveOf(i, resp)
  \/ \E i \in Invocations : DispatchOf(i)
  \/ \E i \in Invocations : ReturnOf(i)

SpecConcurrent == Init /\ [][NextConcurrent]_vars

(***************************************************************************)
(* Properties of the response dispatch.                                    *)
(***************************************************************************)
\* A call has returned after a response had arrived.
Answered == call.pc = "done" /\ response # None

\* The body text as the error path reads it.
BodyRead == IF response.readable THEN response.body ELSE Raw("")

\* The table of section 4.2, step 3.
ByStatus(s, b) ==
  IF s = 400 THEN [kind |-> "InvalidRequest", msg |-> b]
  ELSE IF s = 401 THEN [kind |-> "Unauthorized", msg |-> b]
  ELSE IF s = 403 THEN [kind |-> "Forbidden", msg |-> b]
  ELSE IF s = 409 THEN [kind |-> "Conflict", status |-> 409, body |-> b]
  ELSE IF s = 429 THEN [kind |-> "TooManyRequests", msg |-> b]
  ELSE [kind |-> "UnexpectedResponse", status |-> s, body |-> b]

\* C1: on the endpoints of the standard dispatch, every response that is
\* classified as an error (from_response), and every response with a
\* non-2xx status, gives the error of its status with the body text
\* unchanged: 400 InvalidRequest, 401 Unauthorized, 403 Forbidden,
\* 409 Conflict, 429 TooManyRequests, otherwise UnexpectedResponse.
C1_StandardDispatch ==
  (/\ Answered
   /\ call.endpoint # "get_oauth_token"
   /\ (~IsSuccess(response.status) \/ result.kind \notin {"Ok", "Transport"})) =>
    result = ByStatus(response.status, BodyRead)

C1_Witness ==
  /\ Answered
  /\ call.endpoint = "create_organization"
  /\ response.status = 409
  /\ result = [kind |-> "Conflict", status |-> 409, body |-> Raw("plain text")]

\* A failure response of get_oauth_token has been dispatched.
OauthFailed ==
  /\ Answered
  /\ call.endpoint = "get_oauth_token"
  /\ ~IsSuccess(response.status)

\* The body parses as the {error, error_description} envelope.
IsEnvelope == Decodes(BodyRead, OauthErrorResponse)

EnvelopeCode == Decoded(BodyRead, OauthErrorResponse)["error"].s

EnvelopeDescription == Decoded(BodyRead, OauthErrorResponse)["error_description"].s

\* C2: when the body of a failure response of get_oauth_token parses as the
\* envelope, the result follows the envelope's error code at every status:
\* invalid_request InvalidRequest, unauthorized_client and invalid_client
\* Unauthorized, access_denied and insufficient_scope Forbidden, each with
\* error_description as its message.
C2_EnvelopeByCode ==
  (OauthFailed /\ IsEnvelope) =>
    /\ EnvelopeCode = "invalid_request" =>
         result = [kind |-> "InvalidRequest", msg |-> Raw(EnvelopeDescription)]
    /\ EnvelopeCode \in {"unauthorized_client", "invalid_client"} =>
         result = [kind |-> "Unauthorized", msg |-> Raw(EnvelopeDescription)]
    /\ EnvelopeCode \in {"access_denied", "insufficient_scope"} =>
         result = [kind |-> "Forbidden", msg |-> Raw(EnvelopeDescription)]

C2_Witness ==
  /\ OauthFailed
  /\ response.status = 500
  /\ response.body =
       Obj(("error" :> JStr("invalid_client")) @@ ("error_description" :> JStr("bad")))
  /\ result = [kind |-> "Unauthorized", msg |-> Raw("bad")]

\* C3: when the body of a failure response of get_oauth_token does not
\* parse as the envelope, the result is by status with the raw body: 400
\* InvalidRequest, 401 Unauthorized, 403 Forbidden, 429 TooManyRequests,
\* every other status (409 too) UnexpectedResponse; and get_oauth_token
\* never returns Conflict.
C3_FallbackByStatus ==
  /\ (OauthFailed /\ ~IsEnvelope) =>
       result = IF response.status = 409
                  THEN [kind |-> "UnexpectedResponse", status |-> 409, body |-> BodyRead]
                  ELSE ByStatus(response.status, BodyRead)
  /\ (call.pc = "done" /\ call.endpoint = "get_oauth_token") =>
       result.kind # "Conflict"

C3_Witness ==
  /\ OauthFailed
  /\ response.status = 409
  /\ response.body = Raw("plain text")
  /\ response.readable
  /\ result = [kind |-> "UnexpectedResponse", status |-> 409, body |-> Raw("plain text")]

\* C4: every response of get_oauth_token with status 429 is reported as
\* TooManyRequests, whatever its body.
C4_RateLimitAlways ==
  (Answered /\ call.endpoint = "get_oauth_token" /\ response.status = 429) =>
    result.kind = "TooManyRequests"

KnownCodes ==
  {"invalid_request", "unauthorized_client", "invalid_client", "access_denied",
   "insufficient_scope"}

\* C5: an envelope whose error code is none of the five known codes gives
\* UnexpectedResponse with the response's status and the body
\* "<code>: <description>".
C5_UnrecognisedCode ==
  (OauthFailed /\ IsEnvelope /\ EnvelopeCode \notin KnownCodes) =>
    result = [kind |-> "UnexpectedResponse", status |-> response.status,
              body |-> Raw(EnvelopeCode \o ": " \o EnvelopeDescription)]

C5_Witness ==
  /\ OauthFailed
  /\ response.status = 400
  /\ IsEnvelope
  /\ EnvelopeCode = "too_many_requests"
  /\ result = [kind |-> "UnexpectedResponse", status |-> 400,
               body |-> Raw("too_many_requests: bad")]

\* C6: on every endpoint other than get_oauth_token a response with a 2xx
\* status is treated as success: the result is the decoded value (or the
\* Transport of a failed decoding), never an error classified by status.
C6_Every2xxIsSuccess ==
  (Answered /\ call.endpoint # "get_oauth_token" /\ IsSuccess(response.status)) =>
    result.kind \in {"Ok", "Transport"}

JsonEndpoints ==
  {"get_oauth_token", "create_organization", "patch_organization",
   "create_user", "create_password_change_ticket"}

SuccessType(endpoint) ==
  CASE endpoint = "get_oauth_token" -> OauthTokenResponse
    [] endpoint \in {"create_organization", "patch_organization"} ->
         OrganizationResponse
    [] endpoint = "create_user" -> CreateUserResponse
    [] endpoint = "create_password_change_ticket" ->
         CreatePasswordChangeTicketResponse

\* C7: on every endpoint with a JSON success payload, a response with a 2xx
\* status whose body does not decode into the success type gives Transport.
C7_UndecodableIsTransport ==
  (/\ Answered
   /\ call.endpoint \in JsonEndpoints
   /\ IsSuccess(response.status)
   /\ (~response.readable \/ ~Decodes(response.body, SuccessType(call.endpoint)))) =>
    result.kind = "Transport"

(***************************************************************************)
(* Properties of BearerToken.                                              *)
(***************************************************************************)
HasWhitespace(s) == \E i \in 1..Len(s) : IsWhitespace(s[i])

\* C9: BearerToken::new(raw) succeeds exactly when raw is non-empty and has
\* no whitespace character; an empty raw gives the "cannot be empty"
\* InvalidRequest, a non-empty raw with whitespace the "cannot contain
\* whitespace" InvalidRequest; on success as_str() returns raw unchanged.
C9_TokenNew ==
  token # None =>
    /\ (token.res.kind = "Ok") <=> (Len(token.raw) > 0 /\ ~HasWhitespace(token.raw))
    /\ Len(token.raw) = 0 =>
         token.res = InvalidRequest(Raw("Bearer token cannot be empty"))
    /\ (Len(token.raw) > 0 /\ HasWhitespace(token.raw)) =>
         token.res = InvalidRequest(Raw("Bearer token cannot contain whitespace"))
    /\ (\E c \in {32, 9, 13, 10} : ContainsChar(token.raw, c)) => IsErr(token.res)
    /\ (shown # None /\ shown.how = "as_str") => shown.text = token.raw

C9_Witness ==
  /\ token # None
  /\ shown # None
  /\ shown.how = "as_str"
  /\ Len(token.raw) >= 2

Renderings == {"Debug", "DebugPretty", "Display"}

\* C8 as stated: no rendering of a valid token contains the token's value,
\* and every rendering contains "[REDACTED]".
C8_NeverContainsValue ==
  (shown # None /\ shown.how \in Renderings) =>
    /\ ~Contains(shown.text, token.res.value.inner)
    /\ Contains(shown.text, REDACTED)

\* BearerToken { inner: "[REDACTED]" }
FixedDebugText ==
  <<66, 101, 97, 114, 101, 114, 84, 111, 107, 101, 110, 32, 123, 32, 105,
    110, 110, 101, 114, 58, 32, 34, 91, 82, 69, 68, 65, 67, 84, 69, 68, 93,
    34, 32, 125>>

\* The same with {:#?}: line breaks, four spaces of indent, trailing comma.
FixedDebugPrettyText ==
  <<66, 101, 97, 114, 101, 114, 84, 111, 107, 101, 110, 32, 123, 10, 32, 32,
    32, 32, 105, 110, 110, 101, 114, 58, 32, 34, 91, 82, 69, 68, 65, 67, 84,
    69, 68, 93, 34, 44, 10, 125>>

\* C8 amended: every rendering of a valid token is one fixed text, the same
\* for every token value, and that text contains "[REDACTED]"; so it
\* contains the token's value only when the value is a substring of the
\* fixed text.
C8_FixedRendering ==
  (shown # None /\ shown.how \in Renderings) =>
    /\ shown.how = "Debug" => shown.text = FixedDebugText
    /\ shown.how = "DebugPretty" => shown.text = FixedDebugPrettyText
    /\ shown.how = "Display" => shown.text = <<91, 82, 69, 68, 65, 67, 84, 69, 68, 93>>
    /\ Contains(shown.text, REDACTED)

C8_Witness ==
  /\ shown # None
  /\ shown.how = "Debug"
  /\ Len(token.raw) >= 2
  /\ ~Contains(shown.text, token.raw)

(***************************************************************************)
(* Properties of Domain.                                                   *)
(***************************************************************************)
IsAlpha(c) == c \in 65..90 \/ c \in 97..122

IsSchemeChar(c) == IsAlpha(c) \/ c \in 48..57 \/ c \in {43, 45, 46}

\* s begins with a URL scheme followed by "://".
HasSchemePrefix(s) ==
  \E k \in 1..(Len(s) - 3) :
    /\ IsAlpha(s[1])
    /\ \A i \in 1..k : IsSchemeChar(s[i])
    /\ SubSeq(s, k + 1, k + 3) = <<58, 47, 47>>

\* C10: in the production build Domain::new returns an error for every input
\* that begins with a scheme followed by "://".
C10_NoSchemePrefix ==
  (build = "production" /\ domain # None /\ HasSchemePrefix(domain.raw)) =>
    IsErr(domain.res)

\* C11: in the production build Domain::new checks, in this order, empty
\* input, an http:// or https:// prefix, a trailing '/', the absence of
\* '.', and returns the InvalidRequest of the first check that fails; an
\* input that passes all four is stored verbatim and as_str() returns it.
C11_CheckOrder ==
  (build = "production" /\ domain # None) =>
    LET raw == domain.raw
        res == domain.res
    IN IF Len(raw) = 0
         THEN res = [kind |-> "InvalidRequest", msg |-> Raw("Domain cannot be empty")]
       ELSE IF StartsWith(raw, HTTP) \/ StartsWith(raw, HTTPS)
         THEN res = [kind |-> "InvalidRequest",
                     msg |-> Raw("Domain should not include protocol (http:// or https://)")]
       ELSE IF raw[Len(raw)] = 47
         THEN res = [kind |-> "InvalidRequest",
                     msg |-> Raw("Domain should not end with a trailing slash")]
       ELSE IF \A i \in 1..Len(raw) : raw[i] # 46
         THEN res = [kind |-> "InvalidRequest",
                     msg |-> Raw("Domain must be a valid Auth0 domain (e.g., tenant.auth0.com)")]
       ELSE res.kind = "Ok" /\ DomainAsStr(res.value) = raw

\* "http:///": fails the prefix check and the trailing-slash check.
C11_Witness ==
  /\ build = "production"
  /\ domain # None
  /\ domain.raw = HTTP \o <<47>>
  /\ domain.res.msg = Raw("Domain should not include protocol (http:// or https://)")

C13_ToUrl ==
  url # None =>
    LET stored == domain.res.value.inner
    IN /\ ~StartsWith(stored, HTTP) =>
            url.text = <<104, 116, 116, 112, 115, 58, 47, 47>> \o stored \o url.path
       /\ StartsWith(stored, HTTP) => url.text = stored \o url.path
       /\ build = "production" =>
            StartsWith(url.text, <<104, 116, 116, 112, 115, 58, 47, 47>>)

C13_Witness ==
  /\ url # None
  /\ build = "test"
  /\ StartsWith(domain.raw, HTTP)
  /\ url.path = <<47, 120>>
  /\ url.text = domain.raw \o <<47, 120>>

\* The setter calls a built request was made from.
Called(calls, field) == \E i \in 1..Len(calls) : calls[i].field = field

LastValue(calls, field) ==
  LET last == CHOOSE i \in 1..Len(calls) :
                /\ calls[i].field = field
                /\ \A j \in (i + 1)..Len(calls) : calls[j].field # field
  IN calls[last].value

RequiredFields(ty) == {f.name : f \in {g \in StructFields(ty) : ~g.optional}}

RequiredMessage(field) ==
  CASE field = "client_id" -> Raw("Client ID is required")
    [] field = "email" -> Raw("Email is required")
    [] field = "connection" -> Raw("Connection is required")
    [] field = "user_id" -> Raw("User ID is required")

\* C14: build() on a builder in which a required field was never set
\* returns InvalidRequest whose message names a missing required field,
\* whatever the other fields hold.
C14_MissingRequired ==
  (request # None /\ request.built) =>
    LET missing == {f \in RequiredFields(request.type) :
                      ~Called(request.calls, f)}
    IN missing # {} =>
         \E f \in missing :
           request.res = [kind |-> "InvalidRequest", msg |-> RequiredMessage(f)]

AllRequiredSet(ty, calls) == \A f \in RequiredFields(ty) : Called(calls, f)

HasAt(s) == \E i \in 1..Len(s) : s[i] = 64

RequiredFormatsValid(ty, calls) ==
  ("email" \in RequiredFields(ty) /\ Called(calls, "email")) =>
    HasAt(LastValue(calls, "email"))

OptionalFormatsValid(ty, calls) ==
  ty = "CreatePasswordChangeTicketRequest" =>
    /\ Called(calls, "new_email") => HasAt(LastValue(calls, "new_email"))
    /\ Called(calls, "ttl_sec") => LastValue(calls, "ttl_sec") > 0

\* The request holds the last value given to each field that was set, and
\* None in each optional field that was not.
HoldsLastValues(ty, calls, res) ==
  /\ res.kind = "Ok"
  /\ \A f \in StructFields(ty) :
       IF Called(calls, f.name)
         THEN res.value[f.name] =
                IF f.optional THEN <<LastValue(calls, f.name)>>
                ELSE LastValue(calls, f.name)
         ELSE f.optional => res.value[f.name] = <<>>

\* C15 as stated: after any setter calls in which all required fields were
\* set with valid formats, build() succeeds, each field that was set holds
\* the value of its last setter call and each optional field that was never
\* set is None.
C15_RequiredValidSuffices ==
  (/\ request # None
   /\ request.built
   /\ AllRequiredSet(request.type, request.calls)
   /\ RequiredFormatsValid(request.type, request.calls))
    => HoldsLastValues(request.type, request.calls, request.res)

\* C15, amended: after any setter calls in which all required fields were
\* set and every field with a format rule that was set (email, new_email,
\* ttl_sec) was last given a valid value, build() succeeds, each field that
\* was set holds the value of its last setter call and each optional field
\* that was never set is None.
C15_BuildSucceeds ==
  (/\ request # None
   /\ request.built
   /\ AllRequiredSet(request.type, request.calls)
   /\ RequiredFormatsValid(request.type, request.calls)
   /\ OptionalFormatsValid(request.type, request.calls))
    => HoldsLastValues(request.type, request.calls, request.res)

\* user_id("x").ttl_sec(0).ttl_sec(1).build()
C15_Witness ==
  /\ request # None
  /\ request.built
  /\ request.type = "CreatePasswordChangeTicketRequest"
  /\ Len(request.calls) = 3
  /\ request.calls[2].field = "ttl_sec"
  /\ request.calls[2].value = 0
  /\ request.calls[3].field = "ttl_sec"
  /\ request.calls[3].value = 1
  /\ request.res.kind = "Ok"
  /\ request.res.value.ttl_sec = <<1>>
  /\ request.res.value.new_email = <<>>

RECURSIVE NoAbsentKey(_, _, _)
NoAbsentKey(ty, v, w) ==
  /\ w.t = "object"
  /\ \A f \in StructFields(ty) :
       IF f.optional /\ v[f.name] = <<>>
         THEN f.key \notin DOMAIN w.members
         ELSE (f.optional /\ f.ty \in StructTypes) =>
                /\ f.key \in DOMAIN w.members
                /\ NoAbsentKey(f.ty, v[f.name][1], w.members[f.key])

\* C16: an optional field that is None is not a key of the serialized JSON
\* object, at any nesting level (branding and its colors included), so it
\* is never written as null; a PatchOrganizationRequest with no field set
\* serializes to the empty object.
C16_AbsentOmitted ==
  wire # None =>
    /\ NoAbsentKey(request.type, request.res.value, wire)
    /\ (/\ request.type = "PatchOrganizationRequest"
        /\ \A f \in PatchOrganizationRequest : request.res.value[f.name] = <<>>)
         => (wire.t = "object" /\ DOMAIN wire.members = {})

\* CreateOrganizationRequest with branding { logo_url: None, colors:
\* Some(BrandingColors { primary: None, page_background: Some("x") }) }
C16_Witness ==
  /\ wire # None
  /\ request.type = "CreateOrganizationRequest"
  /\ request.res.value.display_name = <<>>
  /\ request.res.value.branding # <<>>
  /\ request.res.value.branding[1].logo_url = <<>>
  /\ request.res.value.branding[1].colors # <<>>
  /\ request.res.value.branding[1].colors[1].primary = <<>>
  /\ request.res.value.branding[1].colors[1].page_background # <<>>
  /\ DOMAIN wire.members.branding.members = {"colors"}
  /\ DOMAIN wire.members.branding.members.colors.members = {"page_background"}

\* C17: an invocation of an endpoint function sends at most one HTTP
\* request, whatever the outcome; a request is only sent by a function
\* that has sent none.
C17_AtMostOneRequest == sent <= 1

\* The call has failed with TooManyRequests after its one request.
C17_Witness ==
  /\ call.pc = "done"
  /\ sent = 1
  /\ result.kind = "TooManyRequests"

\* C18: post_members with an empty organization id returns
\* InvalidRequest("Organization ID cannot be empty"), otherwise with an
\* empty members list InvalidRequest("Members array cannot be empty"), in
\* both cases without sending an HTTP request.
C18_ValidatedBeforeSending ==
  (call.pc # "idle" /\ call.endpoint = "post_members") =>
    /\ Len(call.args.organization_id) = 0 =>
         /\ call.pc = "done"
         /\ result = [kind |-> "InvalidRequest",
                      msg |-> Raw("Organization ID cannot be empty")]
         /\ sent = 0
         /\ call.request = None
    /\ (Len(call.args.organization_id) > 0 /\ Len(call.args.members) = 0) =>
         /\ call.pc = "done"
         /\ result = [kind |-> "InvalidRequest",
                      msg |-> Raw("Members array cannot be empty")]
         /\ sent = 0
         /\ call.request = None

\* Both the organization id and the members list are empty.
C18_Witness ==
  /\ call.pc = "done"
  /\ call.endpoint = "post_members"
  /\ call.args.organization_id = <<>>
  /\ call.args.members = <<>>
  /\ result.kind = "InvalidRequest"
  /\ sent = 0

\* C19: a call that waits for the server's answer has the 30 second
\* timeout, so that it gives up and returns Transport if the server never
\* answers.
C19_EveryCallTimesOut ==
  call.pc = "awaiting" => call.request.timeout = <<30>>

\* The URL a request for path goes to, given the Domain of the call.
UrlOf(d, path) ==
  IF Len(d.inner) >= 7 /\ SubSeq(d.inner, 1, 7) = <<104, 116, 116, 112, 58, 47, 47>>
    THEN d.inner \o path
    ELSE <<104, 116, 116, 112, 115, 58, 47, 47>> \o d.inner \o path

\* "Bearer " and the token's value
BearerOf(t) == <<66, 101, 97, 114, 101, 114, 32>> \o t.inner

\* C20: change_password sends POST /dbconnections/change_password and
\* get_oauth_token POST /oauth/token, both without Authorization;
\* create_organization sends POST /api/v2/organizations, patch_organization
\* PATCH /api/v2/organizations/{id}, post_members POST
\* /api/v2/organizations/{id}/members, create_user POST /api/v2/users and
\* create_password_change_ticket POST /api/v2/tickets/password-change, each
\* with Authorization: Bearer <token value>.
C20_MethodPathAuth ==
  (call.pc # "idle" /\ call.request # None) =>
    LET e == call.endpoint
        a == call.args
        r == call.request
    IN /\ e = "change_password" =>
            /\ r.method = "POST"
            /\ r.url = UrlOf(a.domain,
                <<47, 100, 98, 99, 111, 110, 110, 101, 99, 116, 105, 111,
                  110, 115, 47, 99, 104, 97, 110, 103, 101, 95, 112, 97,
                  115, 115, 119, 111, 114, 100>>)
            /\ r.auth = <<>>
       /\ e = "get_oauth_token" =>
            /\ r.method = "POST"
            /\ r.url = UrlOf(a.domain,
                <<47, 111, 97, 117, 116, 104, 47, 116, 111, 107, 101, 110>>)
            /\ r.auth = <<>>
       /\ e = "create_organization" =>
            /\ r.method = "POST"
            /\ r.url = UrlOf(a.domain,
                <<47, 97, 112, 105, 47, 118, 50, 47, 111, 114, 103, 97, 110,
                  105, 122, 97, 116, 105, 111, 110, 115>>)
            /\ r.auth = BearerOf(a.token)
       /\ e = "patch_organization" =>
            /\ r.method = "PATCH"
            /\ r.url = UrlOf(a.domain,
                <<47, 97, 112, 105, 47, 118, 50, 47, 111, 114, 103, 97, 110,
                  105, 122, 97, 116, 105, 111, 110, 115, 47>> \o a.organization_id)
            /\ r.auth = BearerOf(a.token)
       /\ e = "post_members" =>
            /\ r.method = "POST"
            /\ r.url = UrlOf(a.domain,
                <<47, 97, 112, 105, 47, 118, 50, 47, 111, 114, 103, 97, 110,
                  105, 122, 97, 116, 105, 111, 110, 115, 47>> \o a.organization_id \o
                <<47, 109, 101, 109, 98, 101, 114, 115>>)
            /\ r.auth = BearerOf(a.token)
       /\ e = "create_user" =>
            /\ r.method = "POST"
            /\ r.url = UrlOf(a.domain,
                <<47, 97, 112, 105, 47, 118, 50, 47, 117, 115, 101, 114,
                  115>>)
            /\ r.auth = BearerOf(a.token)
       /\ e = "create_password_change_ticket" =>
            /\ r.method = "POST"
            /\ r.url = UrlOf(a.domain,
                <<47, 97, 112, 105, 47, 118, 50, 47, 116, 105, 99, 107, 101,
                  116, 115, 47, 112, 97, 115, 115, 119, 111, 114, 100, 45,
                  99, 104, 97, 110, 103, 101>>)
            /\ r.auth = BearerOf(a.token)

\* patch_organization for organization "o" has sent its request.
C20_Witness ==
  /\ call.pc = "awaiting"
  /\ call.endpoint = "patch_organization"
  /\ call.args.organization_id = <<111>>
  /\ call.request.method = "PATCH"
  /\ call.request.auth = <<66, 101, 97, 114, 101, 114, 32, 97>>

\* C23: an UnexpectedResponse or a Conflict returned by an endpoint
\* function never carries a 2xx status.
C23_NoSuccessStatusInError ==
  (call.pc = "done" /\ result.kind \in {"UnexpectedResponse", "Conflict"}) =>
    ~(result.status >= 200 /\ result.status <= 299)

\* The error of a failure status whose body could not be read.
EmptyBodyError(endpoint, s) ==
  IF s = 400 THEN [kind |-> "InvalidRequest", msg |-> Raw("")]
  ELSE IF s = 401 THEN [kind |-> "Unauthorized", msg |-> Raw("")]
  ELSE IF s = 403 THEN [kind |-> "Forbidden", msg |-> Raw("")]
  ELSE IF s = 409 /\ endpoint # "get_oauth_token"
    THEN [kind |-> "Conflict", status |-> 409, body |-> Raw("")]
  ELSE IF s = 429 THEN [kind |-> "TooManyRequests", msg |-> Raw("")]
  ELSE [kind |-> "UnexpectedResponse", status |-> s, body |-> Raw("")]

\* C26: when reading the body of a failure response fails, from_response
\* and get_oauth_token go on with the empty string and return the error of
\* the status with an empty message or body, never Transport.
C26_UnreadableBodyIsEmpty ==
  (/\ call.pc = "done"
   /\ response # None
   /\ ~response.readable
   /\ (response.status < 200 \/ response.status > 299)) =>
    /\ result.kind # "Transport"
    /\ result = EmptyBodyError(call.endpoint, response.status)

\* get_oauth_token has returned for a 429 whose body could not be read.
C26_Witness ==
  /\ call.pc = "done"
  /\ call.endpoint = "get_oauth_token"
  /\ response # None
  /\ ~response.readable
  /\ response.status = 429
  /\ result = [kind |-> "TooManyRequests", msg |-> Raw("")]

SevenKinds ==
  {"Transport", "InvalidRequest", "Unauthorized", "Forbidden", "Conflict",
   "TooManyRequests", "UnexpectedResponse"}

\* C29: a call returns Transport only when building the client failed (no
\* request was made), when sending failed (no response arrived), or when
\* the body of a response with a success status could not be read or
\* decoded; a response with a failure status never gives Transport, and
\* every failed call returns one of the seven error kinds.
C29_TransportOrigins ==
  call.pc = "done" =>
    /\ result.kind = "Transport" =>
         \/ call.request = None
         \/ response = None
         \/ /\ response.status >= 200 /\ response.status <= 299
            /\ \/ ~response.readable
               \/ /\ call.endpoint \in JsonEndpoints
                  /\ ~Decodes(response.body, SuccessType(call.endpoint))
    /\ (response # None /\ (response.status < 200 \/ response.status > 299)) =>
         result.kind # "Transport"
    /\ result.kind # "Ok" => result.kind \in SevenKinds

\* A 200 whose body does not decode.
C29_Witness ==
  /\ call.pc = "done"
  /\ response # None
  /\ response.status = 200
  /\ response.readable
  /\ result = [kind |-> "Transport", source |-> "decode"]

\* C30: patch_organization and post_members never send a request for an
\* empty organization id.
C30_NoEmptyOrganizationId ==
  (/\ call.pc # "idle"
   /\ call.endpoint \in {"patch_organization", "post_members"}
   /\ call.request # None) =>
    Len(call.args.organization_id) > 0

IsTicketBuild ==
  /\ request # None
  /\ request.built
  /\ request.type = "CreatePasswordChangeTicketRequest"

\* C24: CreatePasswordChangeTicketRequestBuilder::build() reports a
\* missing user_id ("User ID is required") whatever new_email and ttl_sec
\* hold, and with user_id set reports an invalid new_email ("Invalid email
\* format") whatever ttl_sec holds.
C24_TicketCheckOrder ==
  IsTicketBuild =>
    /\ ~Called(request.calls, "user_id") =>
         request.res = [kind |-> "InvalidRequest",
                        msg |-> Raw("User ID is required")]
    /\ (/\ Called(request.calls, "user_id")
        /\ Called(request.calls, "new_email")
        /\ ~HasAt(LastValue(request.calls, "new_email"))) =>
         request.res = [kind |-> "InvalidRequest",
                        msg |-> Raw("Invalid email format")]

\* user_id set, new_email without '@' and ttl_sec 0.
C24_Witness ==
  /\ IsTicketBuild
  /\ Called(request.calls, "user_id")
  /\ Called(request.calls, "new_email")
  /\ ~HasAt(LastValue(request.calls, "new_email"))
  /\ Called(request.calls, "ttl_sec")
  /\ LastValue(request.calls, "ttl_sec") = 0
  /\ request.res.msg = Raw("Invalid email format")

\* C25: with user_id set and new_email valid or unset, build() returns
\* InvalidRequest("TTL must be positive") for every ttl_sec <= 0, down to
\* the least i32, succeeds with ttl_sec stored unchanged for every
\* ttl_sec >= 1, up to the greatest i32, and accepts an unset ttl_sec,
\* which stays None.
C25_TtlStrictlyPositive ==
  (/\ IsTicketBuild
   /\ Called(request.calls, "user_id")
   /\ Called(request.calls, "new_email") =>
        HasAt(LastValue(request.calls, "new_email"))) =>
    IF ~Called(request.calls, "ttl_sec")
      THEN request.res.kind = "Ok" /\ request.res.value.ttl_sec = <<>>
    ELSE IF LastValue(request.calls, "ttl_sec") <= 0
      THEN request.res = [kind |-> "InvalidRequest",
                          msg |-> Raw("TTL must be positive")]
    ELSE /\ request.res.kind = "Ok"
         /\ request.res.value.ttl_sec = <<LastValue(request.calls, "ttl_sec")>>

\* ttl_sec(0) is rejected after ttl_sec(2147483647) was given.
C25_Witness ==
  /\ IsTicketBuild
  /\ Len(request.calls) = 3
  /\ request.calls[1].field = "user_id"
  /\ request.calls[2].field = "ttl_sec"
  /\ request.calls[2].value = 2147483647
  /\ request.calls[3].field = "ttl_sec"
  /\ request.calls[3].value = 0
  /\ request.res = [kind |-> "InvalidRequest", msg |-> Raw("TTL must be positive")]

\* Reading a member of the generic JSON form back as a value of type ty
\* (as_str, as_bool, as_i64 within i32, or the Value itself): <<x>> when
\* the member has that type, <<>> when it has not.
ReadBack(ty, j) ==
  CASE ty = "String" -> IF j.t = "string" THEN <<j.v>> ELSE <<>>
    [] ty = "bool" -> IF j.t = "bool" THEN <<j.v>> ELSE <<>>
    [] ty = "i32" ->
         IF j.t = "number" /\ j.v >= -2147483647 - 1 /\ j.v <= 2147483647
           THEN <<j.v>> ELSE <<>>
    [] ty = "Value" -> <<j>>

\* The fields of struct value v that are set: the required ones and the
\* Options that are Some.
SetFields(ty, v) ==
  {f \in StructFields(ty) : ~f.optional \/ v[f.name] # <<>>}

\* C22: for every request produced by a successful build(), the JSON it
\* serializes to has one member for each set field, under that field's
\* serde name, from which the field's value reads back unchanged, and has
\* no other member.
C22_RoundTrip ==
  (wire # None /\ request.built) =>
    LET ty == request.type
        v == request.res.value
    IN /\ wire.t = "object"
       /\ \A f \in SetFields(ty, v) :
            /\ f.key \in DOMAIN wire.members
            /\ ReadBack(f.ty, wire.members[f.key]) =
                 <<IF f.optional THEN v[f.name][1] ELSE v[f.name]>>
       /\ \A f, g \in SetFields(ty, v) : f.key = g.key => f = g
       /\ DOMAIN wire.members = {f.key : f \in SetFields(ty, v)}

\* user_id, include_email_in_redirect and ttl_sec(2147483647), serialized.
C22_Witness ==
  /\ wire # None
  /\ request.built
  /\ request.type = "CreatePasswordChangeTicketRequest"
  /\ request.res.value.include_email_in_redirect = <<TRUE>>
  /\ request.res.value.ttl_sec = <<2147483647>>
  /\ DOMAIN wire.members = {"user_id", "includeEmailInRedirect", "ttl_sec"}
  /\ wire.members.ttl_sec.v = 2147483647

\* C28: in the test build Domain::new accepts an address that begins
\* with "https://" (and does not end with '/'), as the tests of
\* post_members need to obtain their Domain.
C28_TestAcceptsHttps ==
  (/\ build = "test"
   /\ domain # None
   /\ Len(domain.raw) > 8
   /\ SubSeq(domain.raw, 1, 8) = <<104, 116, 116, 112, 115, 58, 47, 47>>
   /\ domain.raw[Len(domain.raw)] # 47) =>
    domain.res.kind = "Ok"

\* The result an invocation returns when it runs alone with the same
\* inputs and the same outcome of its request.
ResultAlone(c) ==
  IF c.response # None THEN Handle(c.endpoint, c.response)
  ELSE IF c.request # None THEN c.result
  ELSE IF c.endpoint = "post_members"
            /\ (c.args.organization_id = <<>> \/ c.args.members = <<>>)
    THEN PostMembersValidate(c.args.organization_id, c.args.members)
  ELSE [kind |-> "Transport", source |-> "builder"]

\* A step changes the state of one invocation only, leaves the inputs of
\* an invocation in progress as they are, and changes no Domain, token or
\* request value.
OwnStateOnly ==
  /\ \A i \in Invocations :
       invocations'[i] # invocations[i] =>
         /\ \A j \in Invocations \ {i} : invocations'[j] = invocations[j]
         /\ (invocations[i].pc # "idle" /\ invocations'[i].pc # "idle") =>
              /\ invocations'[i].endpoint = invocations[i].endpoint
              /\ invocations'[i].args = invocations[i].args
              /\ invocations'[i].request = invocations[i].request
  /\ domain' = domain
  /\ token' = token
  /\ request' = request

====
